---- MODULE Spec2Model ----
(***************************************************************************)
(* A model of pytest_cases/main.py: case discovery in a module, case       *)
(* getters for plain and generated cases, tag filtering, the parametrize   *)
(* ids produced by @cases_data and the argument mapping of the wrapper     *)
(* built by @pytest_fixture_plus.                                          *)
(*                                                                         *)
(* Python values are encoded as follows.                                   *)
(*   str          a sequence of one-character strings                      *)
(*   None / x     the optional <<>> / <<x>>                                *)
(*   dict         a sequence of <<key, value>> pairs in insertion order    *)
(*   exception    the "kind" field of a result ("ok" when none is raised)  *)
(***************************************************************************)
EXTENDS Integers, Sequences, FiniteSets, TLC

VARIABLES pc, call, ret

vars == <<pc, call, ret>>

\* ------------------------------------------------------------------ bounds

\* Case functions start on lines 1..MaxLine of their file.
MaxLine == 2

\* A case generator has at most MaxCombos parameter value combinations.
MaxCombos == 3

\* A fixture function carries at most MaxMarks parametrize marks.
MaxMarks == 3

\* At most MaxDecorations fixture functions are decorated in one module.
MaxDecorations == 2

\* ----------------------------------------------------------- python values

None == <<>>

Some(x) == <<x>>

\* The characters used by the names of the model, in code point order.
Alphabet == <<"1", "2", "_", "a", "b", "c", "e", "s", "x">>

Ord(c) == CHOOSE i \in 1..Len(Alphabet) : Alphabet[i] = c

\* s < t for two str values (lexicographic, as Python compares str).
RECURSIVE StrLess(_, _)
StrLess(s, t) ==
    IF t = <<>> THEN FALSE
    ELSE IF s = <<>> THEN TRUE
    ELSE IF Head(s) # Head(t) THEN Ord(Head(s)) < Ord(Head(t))
    ELSE StrLess(Tail(s), Tail(t))

\* str.startswith
StartsWith(s, prefix) ==
    /\ Len(s) >= Len(prefix)
    /\ SubSeq(s, 1, Len(prefix)) = prefix

\* key in d, d[key] and d[key] = value for a dict
DictKeys(d) == {d[i][1] : i \in 1..Len(d)}

DictGet(d, key) == d[CHOOSE i \in 1..Len(d) : d[i][1] = key][2]

DictSet(d, key, value) ==
    IF key \in DictKeys(d)
    THEN [i \in 1..Len(d) |-> IF d[i][1] = key THEN <<key, value>> ELSE d[i]]
    ELSE Append(d, <<key, value>>)

\* dict(zip(keys, values)): zip stops at the shorter of the two, and a key
\* given twice keeps its last value
RECURSIVE DictZipFrom(_, _, _, _)
DictZipFrom(keys, values, i, d) ==
    IF i > Len(keys) \/ i > Len(values) THEN d
    ELSE DictZipFrom(keys, values, i + 1, DictSet(d, keys[i], values[i]))

DictZip(keys, values) == DictZipFrom(keys, values, 1, <<>>)

\* A parameter value: an int or a str; str(value) is its text.
IntVal(text) == [t |-> "int", v |-> text]

StrVal(text) == [t |-> "str", v |-> text]

PyStr(value) == value.v

\* A name template is a sequence of literal texts and replacement fields;
\* name_template.format(**kwargs) raises KeyError on a field kwargs lacks.
Lit(text) == [kind |-> "lit", s |-> text]

Fld(id) == [kind |-> "fld", s |-> id]

RECURSIVE Format(_, _)
Format(name_template, kwargs) ==
    IF name_template = <<>> THEN [kind |-> "ok", s |-> <<>>]
    ELSE LET tok  == Head(name_template)
             rest == Format(Tail(name_template), kwargs)
         IN  IF tok.kind = "fld" /\ tok.s \notin DictKeys(kwargs)
             THEN [kind |-> "KeyError", s |-> <<>>]
             ELSE IF rest.kind # "ok" THEN rest
             ELSE [kind |-> "ok",
                   s |-> (IF tok.kind = "lit" THEN tok.s
                          ELSE PyStr(DictGet(kwargs, tok.s))) \o rest.s]

\* ------------------------------------------------------------ the objects

\* A module member. callable: callable(obj); name: __name__; code: the
\* optional __code__ (co_filename, co_firstlineno); wrapped: the optional
\* __wrapped__; tags: the optional CASE_TAGS_FIELD; gen: the optional
\* _GENERATOR_FIELD (name_template, param_ids, all_param_values_combinations);
\* pytestmark: the marks put on it by pytest.mark decorators.
Obj(callable, name, code, wrapped, tags, gen, pytestmark) ==
    [callable |-> callable, name |-> name, code |-> code, wrapped |-> wrapped,
     tags |-> tags, gen |-> gen, pytestmark |-> pytestmark]

Code(co_filename, co_firstlineno) ==
    [co_filename |-> co_filename, co_firstlineno |-> co_firstlineno]

\* ------------------------------------------------------ CaseDataFromFunction

\* CaseDataFromFunction.__init__ with the test on function_kwargs turned
\* round: the kwargs given are dropped.
CaseDataFromFunction_NoKwargs(data_generator_func, case_name, function_kwargs) ==
    [f |-> data_generator_func, case_name |-> case_name, function_kwargs |-> <<>>]

CaseDataFromFunction(data_generator_func, case_name, function_kwargs) ==
    [f |-> data_generator_func,
     case_name |-> case_name,
     function_kwargs |-> IF function_kwargs = None THEN <<>>
                         ELSE function_kwargs[1]]

\* CaseDataFromFunction.__str__
GetterStr(c) == IF c.case_name # None THEN c.case_name[1] ELSE c.f.name

\* CaseDataFromFunction.get_marks
get_marks(c) == c.f.pytestmark

\* --------------------------------------------------------- _get_case_getter_s

\* The key of a case in cases_dct: co_firstlineno + gen_case_id / nb (true
\* division), kept as the exact rational (line * nb + id) / nb.
LineKey(line, gen_case_id, nb) == [num |-> line * nb + gen_case_id, den |-> nb]

KeyEq(a, b) == a.num * b.den = b.num * a.den

KeyLess(a, b) == a.num * b.den < b.num * a.den

\* cases_dct[key] = case_getter: an equal key (1 == 1.0) is overwritten
DctStore(cases_dct, key, case_getter) ==
    IF \E i \in 1..Len(cases_dct) : KeyEq(cases_dct[i][1], key)
    THEN [i \in 1..Len(cases_dct) |->
            IF KeyEq(cases_dct[i][1], key)
            THEN <<cases_dct[i][1], case_getter>> ELSE cases_dct[i]]
    ELSE Append(cases_dct, <<key, case_getter>>)

\* The key a generated case is stored under.
gen_line_nb(f_code, gen_case_id, nb_cases_generated) ==
    LineKey(f_code.co_firstlineno, gen_case_id, nb_cases_generated)

\* The test on a generated name looking at the previous name only.
NameAlreadyUsed_LastOnly(gen_case_name, already_used_names) ==
    /\ already_used_names # <<>>
    /\ already_used_names[Len(already_used_names)] = gen_case_name

\* The test on a generated name: it was produced by an earlier combination.
NameAlreadyUsed(gen_case_name, already_used_names) ==
    \E i \in 1..Len(already_used_names) : already_used_names[i] = gen_case_name

\* The end of one turn of the loop: case_getter is saved in the list or in
\* the dict. acc: [kind, cases_list, cases_dct, created, used], created being
\* the getters constructed so far and used the already_used_names.
SaveCase(acc, dictMode, key, gen_case_name, case_getter) ==
    [kind |-> "ok",
     cases_list |-> IF dictMode THEN acc.cases_list
                    ELSE Append(acc.cases_list, case_getter),
     cases_dct |-> IF dictMode THEN DctStore(acc.cases_dct, key, case_getter)
                   ELSE acc.cases_dct,
     created |-> Append(acc.created, case_getter),
     used |-> Append(acc.used, gen_case_name)]

\* One turn of the loop once the name template was formatted: the ValueError
\* on a name used before, else the getter of the generated case.
GenCase(f, dictMode, key, gen_case_params_dct, formatted, acc) ==
    IF formatted.kind # "ok"
    THEN [acc EXCEPT !.kind = formatted.kind]
    ELSE IF NameAlreadyUsed(formatted.s, acc.used)
    THEN [acc EXCEPT !.kind = "ValueError"]
    ELSE SaveCase(acc, dictMode, key, formatted.s,
                  CaseDataFromFunction(f, Some(formatted.s),
                                       Some(gen_case_params_dct)))

\* One turn of the loop, given dict(zip(param_ids, case_params_values)).
GenTurn(f, dictMode, key, gen_case_params_dct, acc) ==
    GenCase(f, dictMode, key, gen_case_params_dct,
            Format(f.gen[1][1], gen_case_params_dct), acc)

\* The loop over all_param_values_combinations, from combination gen_case_id
\* (0-based) on; an exception ends it.
RECURSIVE GenLoop(_, _, _, _, _)
GenLoop(f, f_code, dictMode, gen_case_id, acc) ==
    IF gen_case_id >= Len(f.gen[1][3]) \/ acc.kind # "ok" THEN acc
    ELSE GenLoop(f, f_code, dictMode, gen_case_id + 1,
                 GenTurn(f, dictMode,
                         IF dictMode
                         THEN gen_line_nb(f_code[1], gen_case_id, Len(f.gen[1][3]))
                         ELSE LineKey(0, 0, 1),
                         DictZip(f.gen[1][2], f.gen[1][3][gen_case_id + 1]),
                         acc))

\* _get_case_getter_s(f, f_code, cases_dct); f_code and cases_dct are
\* optionals. The result holds the returned list (cases_dct is None) or the
\* updated dict, the getters created and the exception raised if any.
_get_case_getter_s(f, f_code, cases_dct) ==
    IF f.gen # None
    THEN GenLoop(f, f_code, cases_dct # None, 0,
                 [kind |-> "ok", cases_list |-> <<>>,
                  cases_dct |-> IF cases_dct # None THEN cases_dct[1] ELSE <<>>,
                  created |-> <<>>, used |-> <<>>])
    ELSE SaveCase([kind |-> "ok", cases_list |-> <<>>,
                   cases_dct |-> IF cases_dct # None THEN cases_dct[1] ELSE <<>>,
                   created |-> <<>>, used |-> <<>>],
                  cases_dct # None,
                  IF cases_dct # None
                  THEN LineKey(f_code[1].co_firstlineno, 0, 1)
                  ELSE LineKey(0, 0, 1),
                  <<>>,
                  CaseDataFromFunction(f, None, None))

\* ----------------------------------------------------- extract_cases_from_module

CASE_PREFIX == <<"c", "a", "s", "e", "_">>

\* _get_code(f): the code of f, looked up through __wrapped__; ValueError
\* when neither __wrapped__ nor __code__ is there.
RECURSIVE _get_code(_)
_get_code(f) ==
    IF f.wrapped # None THEN _get_code(f.wrapped[1])
    ELSE IF f.code # None THEN [kind |-> "ok", code |-> f.code[1]]
    ELSE [kind |-> "ValueError", code |-> Code("", 0)]

\* The least name of S.
MinName(S) == CHOOSE x \in S : \A y \in S \ {x} : StrLess(x, y)

\* The names of S in increasing order.
RECURSIVE SortNames(_)
SortNames(S) ==
    IF S = {} THEN <<>>
    ELSE <<MinName(S)>> \o SortNames(S \ {MinName(S)})

\* inspect.getmembers(module, callable): the (name, value) pairs of the
\* callable members, sorted by name.
PairsOf(module, names) ==
    [i \in 1..Len(names) |-> <<names[i], module.members[names[i]]>>]

getmembers_callable(module) ==
    PairsOf(module, SortNames({n \in DOMAIN module.members :
                                 module.members[n].callable}))

\* callable(filter) for the filter argument
callable(x) == x.callable

\* filter(_tags) for the callables the model passes as filter
CallFilter(filter, _tags) ==
    CASE filter.fn = "has_t2"   -> \E i \in 1..Len(_tags) : _tags[i] = "t2"
      [] filter.fn = "untagged" -> Len(_tags) = 0
      [] OTHER                  -> FALSE

\* No test of filter at all: a filter that is no callable is taken as it is.
FilterIsInvalid_Unchecked(filter) == FALSE

\* The guard of the ValueError on filter.
FilterIsInvalid(filter) == filter # None /\ ~callable(filter[1])

\* f_name.startswith(CASE_PREFIX)
HasCasePrefix(f_name) == StartsWith(f_name, CASE_PREFIX)

\* code.co_filename == module.__file__
DefinedInModule(code, module) == code.co_filename = module.file

\* getattr(f, CASE_TAGS_FIELD, ())
TagsOf(f) == IF f.tags = None THEN <<>> ELSE f.tags[1]

\* has_tag in _tags
HasTag(has_tag, _tags) == \E i \in 1..Len(_tags) : _tags[i] = has_tag

\* selected with the filter replacing the outcome of has_tag instead of
\* being ANDed to it.
Selected_FilterWins(has_tag, filter, _tags) ==
    IF filter # None THEN CallFilter(filter[1], _tags)
    ELSE has_tag # None => HasTag(has_tag[1], _tags)

\* selected, after the two optional conditions were ANDed to it
Selected(has_tag, filter, _tags) ==
    /\ has_tag # None => HasTag(has_tag[1], _tags)
    /\ filter # None => CallFilter(filter[1], _tags)

\* The getters of a selected member are in: r is what _get_case_getter_s
\* returned. acc: [kind, cases_dct, selected, inspected, created]; selected
\* holds the names handed to _get_case_getter_s, inspected those whose code
\* was looked up.
StoreGetters(acc, f_name, r) ==
    [kind |-> r.kind,
     cases_dct |-> r.cases_dct,
     selected |-> Append(acc.selected, f_name),
     inspected |-> acc.inspected,
     created |-> acc.created \o r.created]

\* The body of the loop for a member with the prefix; got is _get_code(f).
CaseMember(module, has_tag, filter, f_name, f, got, acc) ==
    IF got.kind # "ok" THEN [acc EXCEPT !.kind = got.kind]
    ELSE IF ~DefinedInModule(got.code, module) THEN acc
    ELSE IF ~Selected(has_tag, filter, TagsOf(f)) THEN acc
    ELSE StoreGetters(acc, f_name,
             _get_case_getter_s(f, Some(got.code), Some(acc.cases_dct)))

\* The body of the loop for one member.
Member(module, has_tag, filter, f_name, f, acc) ==
    IF ~HasCasePrefix(f_name) THEN acc
    ELSE CaseMember(module, has_tag, filter, f_name, f, _get_code(f),
                    [acc EXCEPT !.inspected = Append(@, f_name)])

\* The loop over getmembers(module, callable), from member i on; an
\* exception ends it.
RECURSIVE ExtractLoop(_, _, _, _, _, _)
ExtractLoop(module, has_tag, filter, members, i, acc) ==
    IF i > Len(members) \/ acc.kind # "ok" THEN acc
    ELSE ExtractLoop(module, has_tag, filter, members, i + 1,
                     Member(module, has_tag, filter, members[i][1],
                            members[i][2], acc))

\* The position of a least key of keys.
MinKey(keys) ==
    CHOOSE i \in 1..Len(keys) : \A j \in 1..Len(keys) : ~KeyLess(keys[j], keys[i])

\* keys without the key at position m
DropKey(keys, m) ==
    [j \in 1..(Len(keys) - 1) |-> IF j < m THEN keys[j] ELSE keys[j + 1]]

\* sorted(keys)
RECURSIVE SortKeys(_)
SortKeys(keys) ==
    IF keys = <<>> THEN <<>>
    ELSE <<keys[MinKey(keys)]>> \o SortKeys(DropKey(keys, MinKey(keys)))

\* The keys of cases_dct as the dict holds them, not sorted.
OrderedKeys_Unsorted(cases_dct) == [i \in 1..Len(cases_dct) |-> cases_dct[i][1]]

\* The order in which the keys of cases_dct are taken into the result:
\* sorted(cases_dct.keys())
OrderedKeys(cases_dct) ==
    SortKeys([i \in 1..Len(cases_dct) |-> cases_dct[i][1]])

\* cases_dct[k]
DctGet(cases_dct, k) ==
    cases_dct[CHOOSE i \in 1..Len(cases_dct) : KeyEq(cases_dct[i][1], k)][2]

\* [cases_dct[k] for k in keys]
CasesInOrder(cases_dct, keys) ==
    [i \in 1..Len(keys) |-> DctGet(cases_dct, keys[i])]

\* What the call returns (or raises) after the loop.
Extracted(loop) ==
    [kind |-> loop.kind,
     value |-> IF loop.kind = "ok"
               THEN CasesInOrder(loop.cases_dct, OrderedKeys(loop.cases_dct))
               ELSE <<>>,
     selected |-> loop.selected,
     inspected |-> loop.inspected,
     created |-> loop.created]

\* extract_cases_from_module(module, has_tag, filter): [kind, value] with the
\* returned list, and what the call did (selected, inspected, created).
extract_cases_from_module(module, has_tag, filter) ==
    IF FilterIsInvalid(filter)
    THEN [kind |-> "ValueError", value |-> <<>>, selected |-> <<>>,
          inspected |-> <<>>, created |-> <<>>]
    ELSE Extracted(ExtractLoop(module, has_tag, filter,
                               getmembers_callable(module), 1,
                               [kind |-> "ok", cases_dct |-> <<>>,
                                selected |-> <<>>, inspected |-> <<>>,
                                created |-> <<>>]))

\* ------------------------------------------------------------- get_all_cases

\* An entry of the list get_all_cases returns: the getter c itself, or
\* pytest.param(c, marks=c.get_marks()) when c carries marks.
CaseEntry(c) ==
    IF Len(get_marks(c)) = 0
    THEN [param |-> FALSE, c |-> c, marks |-> <<>>]
    ELSE [param |-> TRUE, c |-> c, marks |-> get_marks(c)]

\* The guard written on the truth of the two arguments (`if module and
\* cases`): an empty list of cases is not seen as given.
BothProvided_Truthy(cases, module) ==
    module # None /\ cases # None /\ cases[1].items # <<>>

\* The guard of the first raise of get_all_cases.
BothProvided(cases, module) == module # None /\ cases # None

\* _cases extended by the getters r of one more case function
AddGetters(acc, r) ==
    [kind |-> r.kind,
     value |-> acc.value \o r.cases_list,
     created |-> acc.created \o r.created,
     inspected |-> acc.inspected]

\* [case_getter for c in cases for case_getter in _get_case_getter_s(c)]
RECURSIVE GettersOfList(_, _, _)
GettersOfList(items, i, acc) ==
    IF i > Len(items) \/ acc.kind # "ok" THEN acc
    ELSE GettersOfList(items, i + 1,
                       AddGetters(acc, _get_case_getter_s(items[i], None, None)))

\* m = sys.modules[this_module_object.__module__] if m is THIS_MODULE else m
ResolveModule(m, this_module) == IF m.this THEN this_module ELSE m.mod

\* _cases += r, the cases extracted from one more module
AddExtracted(acc, r) ==
    [kind |-> r.kind,
     value |-> acc.value \o r.value,
     created |-> acc.created \o r.created,
     inspected |-> acc.inspected \o r.inspected]

\* for m in module: _cases += extract_cases_from_module(m, has_tag, filter)
RECURSIVE CasesOfModules(_, _, _, _, _, _)
CasesOfModules(items, this_module, has_tag, filter, i, acc) ==
    IF i > Len(items) \/ acc.kind # "ok" THEN acc
    ELSE CasesOfModules(items, this_module, has_tag, filter, i + 1,
             AddExtracted(acc,
                 extract_cases_from_module(ResolveModule(items[i], this_module),
                                           has_tag, filter)))

\* The cases of a call without `module`: a single case function or a list
\* of them (None is not iterable); has_tag and filter are not read.
CasesOfExplicit(cases, has_tag, filter) ==
    IF cases = None
    THEN [kind |-> "TypeError", value |-> <<>>, created |-> <<>>,
          inspected |-> <<>>]
    ELSE GettersOfList(cases[1].items, 1,
                       [kind |-> "ok", value |-> <<>>, created |-> <<>>,
                        inspected |-> <<>>])

\* The last statement: the pytest parameters that carry the marks.
WithMarks(found) ==
    IF found.kind # "ok" THEN [found EXCEPT !.value = <<>>]
    ELSE [found EXCEPT
            !.value = [i \in 1..Len(found.value) |-> CaseEntry(found.value[i])]]

\* get_all_cases(cases, module, this_module_object, has_tag, filter):
\* [kind, value] with the returned list of entries, and the getters created
\* and members inspected on the way. cases: optional [form, items], form
\* "callable" (a single case function) or "list"; module: optional
\* [form, items], form "module" (a single module or THIS_MODULE) or "list".
get_all_cases(cases, module, this_module, has_tag, filter) ==
    IF BothProvided(cases, module)
    THEN [kind |-> "ValueError", value |-> <<>>, created |-> <<>>,
          inspected |-> <<>>]
    ELSE IF module = None
    THEN WithMarks(CasesOfExplicit(cases, has_tag, filter))
    ELSE WithMarks(CasesOfModules(module[1].items, this_module, has_tag, filter,
                                  1, [kind |-> "ok", value |-> <<>>,
                                      created |-> <<>>, inspected |-> <<>>]))

\* ----------------------------------------------------------------- cases_data

\* repr(c) of a CaseDataFromFunction, up to the text of str(c.f)
GetterRepr(c) == <<"[">> \o GetterStr(c) \o <<"]">>

\* str(x) of an entry of _cases: CaseDataFromFunction.__str__ for a getter,
\* and the namedtuple text ParameterSet(values=(<repr of c>,), ...) for a
\* pytest.param
EntryStr(e) ==
    IF e.param
    THEN <<"P", "a", "r", "a", "m", "e", "t", "e", "r", "S", "e", "t", "(">>
         \o GetterRepr(e.c) \o <<")">>
    ELSE GetterStr(e.c)

\* cases_ids = [str(c) for c in _cases]
cases_ids(_cases) == [i \in 1..Len(_cases) |-> EntryStr(_cases[i])]

\* pytest.mark.parametrize(case_data_argname, _cases, ids=cases_ids)
Parametrizer(case_data_argname, got) ==
    [kind |-> got.kind,
     argnames |-> case_data_argname,
     argvalues |-> got.value,
     ids |-> IF got.kind = "ok" THEN cases_ids(got.value) ELSE <<>>]

\* cases_data(cases, module, case_data_argname, has_tag, filter)(test_func):
\* the arguments given to pytest.mark.parametrize
cases_data(cases, module, case_data_argname, this_module, has_tag, filter) ==
    Parametrizer(case_data_argname,
                 get_all_cases(cases, module, this_module, has_tag, filter))

\* ------------------------------------------------- decorate_pytest_fixture_plus

Digits == <<"0", "1", "2", "3", "4", "5", "6", "7", "8", "9">>

\* str(i) for an int i >= 0
RECURSIVE StrOfInt(_)
StrOfInt(i) ==
    IF i < 10 THEN <<Digits[i + 1]>>
    ELSE StrOfInt(i \div 10) \o <<Digits[(i % 10) + 1]>>

\* 'X'.join(param_names)
RECURSIVE JoinX(_)
JoinX(param_names) ==
    IF Len(param_names) = 1 THEN param_names[1]
    ELSE param_names[1] \o <<"X">> \o JoinX(Tail(param_names))

\* The name tried in turn i of the while loop.
Candidate(gen_name, i) ==
    IF i = 0 THEN gen_name ELSE gen_name \o <<"_">> \o StrOfInt(i)

FreeName_NoSearch(gen_name, i, attrs) == Candidate(gen_name, i)

\* The while loop looking for a name that dir(module) does not hold.
RECURSIVE FreeName(_, _, _)
FreeName(gen_name, i, attrs) ==
    IF Candidate(gen_name, i) \in attrs THEN FreeName(gen_name, i + 1, attrs)
    ELSE Candidate(gen_name, i)

\* fixture_func.__name__ + "__" + 'X'.join(m.param_names)
GenName(func_name, param_names) == func_name \o <<"_", "_">> \o JoinX(param_names)

\* setattr(module, name, param_fixture) and params_map[name] = param_names,
\* or the ValueError on a name dir(module) holds. injected lists what was
\* set on the module, in order: the name and the gen_name it was made from.
AddParamFixture(acc, gen_name, name, param_names) ==
    IF name \in acc.attrs
    THEN [acc EXCEPT !.kind = "ValueError", !.msg = "already exists"]
    ELSE [kind |-> "ok", msg |-> "",
          params_map |-> DictSet(acc.params_map, name, param_names),
          attrs |-> acc.attrs \cup {name},
          injected |-> Append(acc.injected,
                              [name |-> name, gen_name |-> gen_name])]

\* The loop over parametrizer_marks, from mark j on. acc: [kind, msg,
\* params_map, attrs, injected], params_map the OrderedDict of generated
\* fixture name -> param_names and attrs the names of dir(module).
RECURSIVE MarksLoop(_, _, _, _)
MarksLoop(func_name, marks, j, acc) ==
    IF j > Len(marks) \/ acc.kind # "ok" THEN acc
    ELSE IF Len(marks[j]) < 1
    THEN [acc EXCEPT !.kind = "ValueError", !.msg = "empty parameter name"]
    ELSE MarksLoop(func_name, marks, j + 1,
                   AddParamFixture(acc,
                       GenName(func_name, marks[j]),
                       FreeName(GenName(func_name, marks[j]), 0, acc.attrs),
                       marks[j]))

\* The module as a decoration finds it: the names of dir(module) and what
\* earlier decorations set on it; params_map starts empty.
ModuleBefore(attrs, injected) ==
    [kind |-> "ok", msg |-> "", params_map |-> <<>>, attrs |-> attrs,
     injected |-> injected]

\* How far i moves over a mark that names several parameters: the code adds
\* one for every name it unpacks.
AdvanceUnpacked(i, unpacked) == i + unpacked

\* len(list(zip(old_names, values)))
ZipLen(old_names, values) ==
    IF Len(old_names) < Len(values) THEN Len(old_names) ELSE Len(values)

\* The items of a tuple, each as a value of its own.
ItemsOf(value) ==
    [k \in 1..Len(value.items) |-> [tuple |-> FALSE, items |-> <<value.items[k]>>]]

\* _get_arguments, from generated fixture j on: kwargs receives the values of
\* fixture_params under the old parameter names. A value is [tuple, items]:
\* a tuple of items, or the single item. i is 0-based as in the code.
RECURSIVE ArgsLoop(_, _, _, _, _)
ArgsLoop(params_map, fixture_params, j, i, acc) ==
    IF j > Len(params_map) \/ acc.kind # "ok" THEN acc
    ELSE IF i >= Len(fixture_params)
    THEN [acc EXCEPT !.kind = "IndexError"]
    ELSE IF Len(params_map[j][2]) = 1
    THEN ArgsLoop(params_map, fixture_params, j + 1, i + 1,
                  [acc EXCEPT !.kwargs =
                      DictSet(@, params_map[j][2][1], fixture_params[i + 1])])
    ELSE IF ~fixture_params[i + 1].tuple
    THEN [acc EXCEPT !.kind = "TypeError"]
    ELSE ArgsLoop(params_map, fixture_params, j + 1,
                  AdvanceUnpacked(i, ZipLen(params_map[j][2],
                                            fixture_params[i + 1].items)),
                  [acc EXCEPT !.kwargs =
                      DictZipFrom(params_map[j][2],
                                  ItemsOf(fixture_params[i + 1]), 1, @)])

_get_arguments(params_map, fixture_params, kwargs) ==
    ArgsLoop(params_map, fixture_params, 1, 0, [kind |-> "ok", kwargs |-> kwargs])

\* What one call of the wrapper does after _get_arguments returned args:
\* fixture_func(*args, **kwargs).
Called(deco, args) ==
    [kind |-> args.kind, stage |-> "call",
     kwargs |-> IF args.kind = "ok" THEN args.kwargs ELSE <<>>,
     params_map |-> deco.params_map, attrs |-> deco.attrs]

\* One call of the wrapper of a decorated fixture: the keyword arguments
\* fixture_func is called with.
WrapperCall(deco, fixture_params) ==
    IF deco.kind # "ok"
    THEN [kind |-> deco.kind, stage |-> "decorate", kwargs |-> <<>>,
          params_map |-> deco.params_map, attrs |-> deco.attrs]
    ELSE Called(deco, _get_arguments(deco.params_map, fixture_params, <<>>))

\* decorate_pytest_fixture_plus(fixture_func) in a module whose dir() is
\* attrs, then one call of the wrapper with fixture_params, the values of
\* the generated param fixtures in the order of new_parameter_names.
fixture_wrapper_call(func_name, marks, attrs, fixture_params) ==
    WrapperCall(MarksLoop(func_name, marks, 1, ModuleBefore(attrs, <<>>)),
                fixture_params)

\* The module after one more decoration: what MarksLoop left, and the number
\* of decorations so far.
Decorated(loop, decorated) ==
    [kind |-> loop.kind, msg |-> loop.msg, params_map |-> loop.params_map,
     attrs |-> loop.attrs, injected |-> loop.injected, decorated |-> decorated]

\* decorate_pytest_fixture_plus(fixture_func) up to the end of the loop over
\* the marks, in a module that earlier decorations left as `before`.
decorate_pytest_fixture_plus(func_name, marks, before) ==
    Decorated(MarksLoop(func_name, marks, 1,
                        ModuleBefore(before.attrs, before.injected)),
              before.decorated + 1)

\* A fixture function of the model, called with kwargs: a generator function
\* yields the values of its arguments one by one, a normal function returns
\* the tuple of them.
ArgumentValues(kwargs) == [k \in 1..Len(kwargs) |-> kwargs[k][2]]

fixture_func(is_generator, kwargs) ==
    IF is_generator
    THEN [yielded |-> ArgumentValues(kwargs), returned |-> None]
    ELSE [yielded |-> <<>>, returned |-> Some(ArgumentValues(kwargs))]

\* for res in fixture_func(*args, **kwargs): yield res, from value k on
RECURSIVE YieldEach(_, _, _)
YieldEach(results, k, yielded) ==
    IF k > Len(results) THEN yielded
    ELSE YieldEach(results, k + 1, Append(yielded, results[k]))

\* The wrapper of a normal function, once _get_arguments returned args
ReturningWrapper(args) ==
    IF args.kind # "ok"
    THEN [kind |-> args.kind, yielded |-> <<>>, returned |-> None]
    ELSE [kind |-> "ok", yielded |-> <<>>,
          returned |-> fixture_func(FALSE, args.kwargs).returned]

\* The wrapper of a generator function, once _get_arguments returned args
YieldingWrapper(args) ==
    IF args.kind # "ok"
    THEN [kind |-> args.kind, yielded |-> <<>>, returned |-> None]
    ELSE [kind |-> "ok",
          yielded |-> YieldEach(fixture_func(TRUE, args.kwargs).yielded, 1, <<>>),
          returned |-> None]

\* my_decorate(fixture_func, wrapper, additional_args, removed_args): a
\* function with the new signature that behaves as wrapper does, a generator
\* function when wrapper is one.
my_decorate(wrapper_is_generator, outcome) ==
    [is_generator |-> wrapper_is_generator, kind |-> outcome.kind,
     yielded |-> outcome.yielded, returned |-> outcome.returned]

\* fixture_decorator(wrapped_fixture_func): the fixture pytest knows, with
\* the decorator that made it.
Registered(decorator, wrapped) ==
    [registered |-> decorator, is_generator |-> wrapped.is_generator,
     kind |-> wrapped.kind, yielded |-> wrapped.yielded,
     returned |-> wrapped.returned]

\* The two branches on isgeneratorfunction(fixture_func), and one use of the
\* fixture they register, with fixture_params from the param fixtures.
WrapFixture(is_generator, deco, fixture_params) ==
    IF ~is_generator
    THEN Registered("pytest.fixture",
             my_decorate(FALSE,
                 ReturningWrapper(_get_arguments(deco.params_map,
                                                 fixture_params, <<>>))))
    ELSE Registered("yield_fixture",
             my_decorate(TRUE,
                 YieldingWrapper(_get_arguments(deco.params_map,
                                                fixture_params, <<>>))))

\* decorate_pytest_fixture_plus(fixture_func) and one use of the fixture.
wrapped_fixture(func_name, is_generator, marks, attrs, fixture_params) ==
    WrapFixture(is_generator,
                MarksLoop(func_name, marks, 1, ModuleBefore(attrs, <<>>)),
                fixture_params)

\* --------------------------------------------------------- unfold_expected_err

\* A class: its name, the name of its metaclass, and the names of the classes
\* of its __mro__.
Class(name, meta, mro) == [name |-> name, meta |-> meta, mro |-> mro]

\* The classes the values of the model are made of.
ClassOf(name) ==
    CASE name = "object" -> Class("object", "type", <<"object">>)
      [] name = "type" -> Class("type", "type", <<"type", "object">>)
      [] name = "ABCMeta" -> Class("ABCMeta", "type", <<"ABCMeta", "type", "object">>)
      [] name = "function" -> Class("function", "type", <<"function", "object">>)
      [] name = "int" -> Class("int", "type", <<"int", "object">>)
      [] name = "Validator" -> Class("Validator", "type", <<"Validator", "object">>)
      [] name = "BaseException" ->
            Class("BaseException", "type", <<"BaseException", "object">>)
      [] name = "KeyboardInterrupt" ->
            Class("KeyboardInterrupt", "type",
                  <<"KeyboardInterrupt", "BaseException", "object">>)
      [] name = "Exception" ->
            Class("Exception", "type", <<"Exception", "BaseException", "object">>)
      [] name = "ValueError" ->
            Class("ValueError", "type",
                  <<"ValueError", "Exception", "BaseException", "object">>)
      [] name = "AbstractError" ->
            Class("AbstractError", "ABCMeta",
                  <<"AbstractError", "Exception", "BaseException", "object">>)

\* A value: the class itself (is_class), or an instance of cls; has_call
\* tells whether the class of an instance defines __call__.
ClassValue(name) == [is_class |-> TRUE, cls |-> name, has_call |-> FALSE, id |-> 0]

InstanceValue(name, has_call, id) ==
    [is_class |-> FALSE, cls |-> name, has_call |-> has_call, id |-> id]

\* type(v), as the name of a class
TypeOf(v) == IF v.is_class THEN ClassOf(v.cls).meta ELSE v.cls

\* issubclass(c, base), on names of classes
issubclass(c, base) ==
    \E k \in 1..Len(ClassOf(c).mro) : ClassOf(c).mro[k] = base

\* callable(v): the type of v defines __call__, which every metaclass does
\* and the classes function and Validator do.
IsCallable(v) == v.is_class \/ v.has_call

\* unfold_expected_err(expected_e): the tuple it returns, each None as <<>>,
\* or ValueError.
unfold_expected_err(expected_e) ==
    IF TypeOf(expected_e) = "type" /\ expected_e.is_class
       /\ issubclass(expected_e.cls, "Exception")
    THEN [kind |-> "ok",
          value |-> <<Some(expected_e), None, None>>]
    ELSE IF issubclass(TypeOf(expected_e), "Exception")
    THEN [kind |-> "ok",
          value |-> <<Some(ClassValue(TypeOf(expected_e))), Some(expected_e), None>>]
    ELSE IF IsCallable(expected_e)
    THEN [kind |-> "ok",
          value |-> <<Some(ClassValue("Exception")), None, Some(expected_e)>>]
    ELSE [kind |-> "ValueError", value |-> <<>>]

\* ------------------------------------------------------------------ inputs

File == "cases.py"

OtherFile == "other.py"

case_a == CASE_PREFIX \o <<"a">>

case_b == CASE_PREFIX \o <<"b">>

\* A member name without the prefix: "casex".
casex == <<"c", "a", "s", "e", "x">>

pa == <<"a">>

pb == <<"b">>

I1 == IntVal(<<"1">>)

S1 == StrVal(<<"1">>)

S11 == StrVal(<<"1", "1">>)

\* Name templates: "c_{a}", "{a}{b}", "c" and "{x}" (x is no parameter id).
Templates ==
    { <<Lit(<<"c", "_">>), Fld(pa)>>,
      <<Fld(pa), Fld(pb)>>,
      <<Lit(<<"c">>)>>,
      <<Fld(<<"x">>)>> }

\* One combination of values for the parameter ids (a, b); a combination of
\* one value leaves b without a value.
Combos == {<<v>> : v \in {I1, S1, S11}}
          \cup {<<v, w>> : v \in {I1, S1, S11}, w \in {I1, S1, S11}}

ComboSeqs == UNION {[1..n -> Combos] : n \in 0..MaxCombos}

Generators == {<<t, <<pa, pb>>, cs>> : t \in Templates, cs \in ComboSeqs}

\* A function defined on `line` of `file`; its __name__ is case_<line>.
Fn(file, line, tags, gen, pytestmark) ==
    Obj(TRUE, CASE_PREFIX \o StrOfInt(line), Some(Code(file, line)), None,
        tags, gen, pytestmark)

TagOptions == {None, Some(<<"t1">>), Some(<<"t2", "t1">>)}

\* The generators the modules hold: MaxCombos cases named c_1, c_2, ... and
\* MaxCombos cases all named c.
NumberedGen ==
    <<<<Lit(<<"c", "_">>), Fld(pa)>>, <<pa, pb>>,
      [k \in 1..MaxCombos |-> <<IntVal(StrOfInt(k)), S1>>]>>

SameNameGen ==
    <<<<Lit(<<"c">>)>>, <<pa, pb>>,
      [k \in 1..MaxCombos |-> <<IntVal(StrOfInt(k)), S1>>]>>

PlainFns ==
    {Fn(File, l, t, None, <<>>) : l \in 1..MaxLine, t \in TagOptions}
    \cup {Fn(File, l, None, None, <<"skip">>) : l \in 1..MaxLine}

GenFns ==
    {Fn(File, l, Some(<<"t1">>), Some(g), <<>>) :
        l \in 1..MaxLine, g \in {NumberedGen, SameNameGen}}

\* A function imported from another file, a class, a function behind a
\* wrapper that sets __wrapped__ (functools.lru_cache), and a plain value.
ImportedFn == Fn(OtherFile, 1, None, None, <<>>)

AClass == Obj(TRUE, <<"c">>, None, None, None, None, <<>>)

WrappedFn ==
    Obj(TRUE, case_a, None, Some(Fn(File, MaxLine, None, None, <<>>)),
        Some(<<"t1">>), None, <<>>)

AValue == Obj(FALSE, <<>>, None, None, None, None, <<>>)

ModuleObjs == PlainFns \cup GenFns \cup {ImportedFn, AClass, WrappedFn, AValue}

\* The module whose members case_a, case_b and casex are the optionals oa,
\* ob and ox.
ModuleOf(oa, ob, ox) ==
    [file |-> File,
     members |->
        [n \in {x \in {case_a} : oa # None} \cup {x \in {case_b} : ob # None}
               \cup {x \in {casex} : ox # None} |->
            IF n = case_a THEN oa[1] ELSE IF n = case_b THEN ob[1] ELSE ox[1]]]

OptObjs == {None} \cup {Some(o) : o \in ModuleObjs}

Modules ==
    {ModuleOf(oa, ob, ox) :
        oa \in OptObjs, ob \in OptObjs,
        ox \in {None, Some(Fn(File, 1, None, None, <<>>)),
                Some(Fn(File, MaxLine, Some(<<"t1">>), Some(NumberedGen), <<>>))}}

HasTags == {None, Some("t1"), Some("t2")}

\* filter: not given, the callables has_t2 (lambda tags: 't2' in tags) and
\* untagged (lambda tags: len(tags) == 0), and a tag given where a callable
\* is expected.
Filters ==
    {None,
     Some([callable |-> TRUE, fn |-> "has_t2"]),
     Some([callable |-> TRUE, fn |-> "untagged"]),
     Some([callable |-> FALSE, fn |-> "t1"])}

\* The functions listed explicitly through `cases`.
ListedFns ==
    {Fn(File, 1, None, None, <<>>),
     Fn(File, 1, Some(<<"t1">>), None, <<>>),
     Fn(File, MaxLine, Some(<<"t2", "t1">>), None, <<"skip">>),
     Fn(File, MaxLine, Some(<<"t1">>), Some(NumberedGen), <<>>),
     Fn(File, 1, None, Some(SameNameGen), <<>>)}

CasesArgs ==
    {None}
    \cup {Some([form |-> "callable", items |-> <<f>>]) : f \in ListedFns}
    \cup {Some([form |-> "list", items |-> <<>>])}
    \cup {Some([form |-> "list", items |-> <<f, g>>]) :
            f \in ListedFns, g \in ListedFns}

\* The module of the decorated test function, for THIS_MODULE.
ThisModule == ModuleOf(Some(Fn(File, 1, Some(<<"t1">>), None, <<>>)), None, None)

\* module: one module, or a list of that module and THIS_MODULE.
OneModule(m) ==
    Some([form |-> "module", items |-> <<[this |-> FALSE, mod |-> m]>>])

ModuleArgs(m) ==
    {OneModule(m),
     Some([form |-> "list",
           items |-> <<[this |-> FALSE, mod |-> m],
                       [this |-> TRUE, mod |-> ThisModule]>>])}

JustThisModule ==
    Some([form |-> "module", items |-> <<[this |-> TRUE, mod |-> ThisModule]>>])

\* The parametrize marks of a fixture function: up to MaxMarks marks over
\* the argument names a, b, c, d, no name used twice.
ArgNames == {<<"a">>, <<"b">>, <<"c">>, <<"d">>}

ParamNames ==
    {<<n>> : n \in ArgNames}
    \cup {<< <<"a">>, <<"b">> >>, << <<"c">>, <<"d">> >>, << <<"b">>, <<"c">> >>}

NamesOf(marks) == UNION {{marks[j][k] : k \in 1..Len(marks[j])} : j \in 1..Len(marks)}

RECURSIVE CountNames(_)
CountNames(marks) ==
    IF marks = <<>> THEN 0 ELSE Len(Head(marks)) + CountNames(Tail(marks))

MarkSeqs ==
    {ms \in UNION {[1..n -> ParamNames] : n \in 0..MaxMarks} :
        Cardinality(NamesOf(ms)) = CountNames(ms)}

ArgValues == {IntVal(<<"1">>), IntVal(<<"2">>)}

\* The value the param fixture of a mark supplies when argument n is to
\* receive val[n]: that value for one name, the tuple of them for several.
ParamValue(param_names, val) ==
    IF Len(param_names) = 1
    THEN [tuple |-> FALSE, items |-> <<val[param_names[1]]>>]
    ELSE [tuple |-> TRUE,
          items |-> [k \in 1..Len(param_names) |-> val[param_names[k]]]]

fix == <<"f">>

\* What dir(module) holds before the decoration.
AttrSets == {{}, {fix \o <<"_", "_", "a">>}}

\* What unfold_expected_err is called with: exception types (one of them with
\* the metaclass ABCMeta), other classes, exception instances (one of them
\* callable), functions and callable objects, and values that are none of
\* these.
ExpectedErrs ==
    {ClassValue(n) : n \in {"Exception", "ValueError", "AbstractError",
                            "KeyboardInterrupt", "int", "object"}}
    \cup {InstanceValue(n, FALSE, i) :
             n \in {"Exception", "ValueError", "AbstractError", "int", "object"},
             i \in 1..2}
    \cup {InstanceValue("ValueError", TRUE, 1)}
    \cup {InstanceValue(n, TRUE, i) : n \in {"function", "Validator"}, i \in 1..2}

\* The fixture functions decorated in one module: f and f__a.
FixtureNames == {fix, fix \o <<"_", "_", "a">>}

\* The param_names of the marks of these functions: names whose generated
\* fixture names can coincide ('a', 'b' joined is 'aXb'; 'a' numbered 1 is
\* 'a_1'), and the empty one.
DecoParamNames ==
    {<< <<"a">> >>, << <<"a", "X", "b">> >>, << <<"a", "_", "1">> >>,
     << <<"a">>, <<"b">> >>, <<>>}

\* The marks of one decorated function: none, one or two.
DecoMarks == UNION {[1..n -> DecoParamNames] : n \in 0..2}

\* The marks of a fixture function that is used once: at most two.
UsedMarks == {ms \in MarkSeqs : Len(ms) <= 2}

\* --------------------------------------------------------------- the machine

\* The call that is pending: one call of the package per behaviour.
IsCall(c) ==
    \/ \E f \in PlainFns \cup {Fn(File, 1, None, Some(g), <<>>) : g \in Generators} :
          c = [op |-> "_get_case_getter_s", f |-> f]
    \/ \E m \in Modules, h \in HasTags, fl \in Filters :
          c = [op |-> "extract_cases_from_module", module |-> m, has_tag |-> h,
               filter |-> fl]
    \/ \E ma \in UNION {ModuleArgs(m) : m \in Modules}, h \in HasTags, fl \in Filters :
          c = [op |-> "get_all_cases",
               args |-> [cases |-> None, module |-> ma, has_tag |-> h, filter |-> fl]]
    \/ \E cs \in CasesArgs, ma \in {None, JustThisModule}, h \in HasTags,
          fl \in Filters :
          c = [op |-> "get_all_cases",
               args |-> [cases |-> cs, module |-> ma, has_tag |-> h, filter |-> fl]]
    \/ \E m \in Modules, h \in HasTags :
          c = [op |-> "cases_data",
               args |-> [cases |-> None, module |-> OneModule(m), has_tag |-> h,
                         filter |-> None]]
    \/ \E cs \in CasesArgs, ma \in {None, JustThisModule}, h \in HasTags :
          c = [op |-> "cases_data",
               args |-> [cases |-> cs, module |-> ma, has_tag |-> h, filter |-> None]]
    \/ \E marks \in MarkSeqs, val \in [ArgNames -> ArgValues], attrs \in AttrSets :
          c = [op |-> "fixture_wrapper", marks |-> marks, val |-> val,
               attrs |-> attrs]
    \/ \E e \in ExpectedErrs :
          c = [op |-> "unfold_expected_err", expected_e |-> e]
    \/ \E attrs \in AttrSets :
          c = [op |-> "decorate_pytest_fixture_plus", attrs |-> attrs]
    \/ \E g \in BOOLEAN, marks \in UsedMarks, val \in [ArgNames -> ArgValues] :
          c = [op |-> "wrapped_fixture", is_generator |-> g, marks |-> marks,
               val |-> val]

\* A call is pending; nothing has run.
Init ==
    /\ pc = "called"
    /\ IsCall(call)
    /\ ret = [kind |-> "none"]

\* _get_case_getter_s(f) on a case function or a case generator
Run_get_case_getter_s ==
    /\ pc = "called"
    /\ call.op = "_get_case_getter_s"
    /\ ret' = _get_case_getter_s(call.f, None, None)
    /\ pc' = "done"
    /\ UNCHANGED call

\* extract_cases_from_module(module, has_tag, filter)
Run_extract_cases_from_module ==
    /\ pc = "called"
    /\ call.op = "extract_cases_from_module"
    /\ ret' = extract_cases_from_module(call.module, call.has_tag, call.filter)
    /\ pc' = "done"
    /\ UNCHANGED call

\* get_all_cases(cases, module, this_module_object, has_tag, filter)
Run_get_all_cases ==
    /\ pc = "called"
    /\ call.op = "get_all_cases"
    /\ ret' = get_all_cases(call.args.cases, call.args.module, ThisModule,
                            call.args.has_tag, call.args.filter)
    /\ pc' = "done"
    /\ UNCHANGED call

\* @cases_data(cases, module, has_tag=, filter=) applied to a test function
Run_cases_data ==
    /\ pc = "called"
    /\ call.op = "cases_data"
    /\ ret' = cases_data(call.args.cases, call.args.module, "case_data",
                         ThisModule, call.args.has_tag, call.args.filter)
    /\ pc' = "done"
    /\ UNCHANGED call

\* @pytest_fixture_plus on a function with parametrize marks, then pytest
\* calling the wrapped fixture with the values of the param fixtures
Run_fixture_wrapper ==
    /\ pc = "called"
    /\ call.op = "fixture_wrapper"
    /\ ret' = fixture_wrapper_call(fix, call.marks, call.attrs,
                  [j \in 1..Len(call.marks) |-> ParamValue(call.marks[j], call.val)])
    /\ pc' = "done"
    /\ UNCHANGED call

\* unfold_expected_err(expected_e)
Run_unfold_expected_err ==
    /\ pc = "called"
    /\ call.op = "unfold_expected_err"
    /\ ret' = unfold_expected_err(call.expected_e)
    /\ pc' = "done"
    /\ UNCHANGED call

\* @pytest_fixture_plus on a normal or a generator function, then pytest using
\* the fixture once with the values of the param fixtures
Run_wrapped_fixture ==
    /\ pc = "called"
    /\ call.op = "wrapped_fixture"
    /\ ret' = wrapped_fixture(fix, call.is_generator, call.marks, {},
                  [j \in 1..Len(call.marks) |-> ParamValue(call.marks[j], call.val)])
    /\ pc' = "done"
    /\ UNCHANGED call

\* The module of the fixture functions before the next decoration: as it was
\* imported, or as the last decoration left it.
ModuleNow ==
    IF pc = "called"
    THEN Decorated(ModuleBefore(call.attrs, <<>>), 0)
    ELSE ret

\* @pytest_fixture_plus on one more fixture function of the module; a
\* decoration that raised ends the import of the module.
Run_decorate_pytest_fixture_plus ==
    /\ pc \in {"called", "decorated"}
    /\ call.op = "decorate_pytest_fixture_plus"
    /\ ModuleNow.kind = "ok"
    /\ ModuleNow.decorated < MaxDecorations
    /\ \E func_name \in FixtureNames, marks \in DecoMarks :
          ret' = decorate_pytest_fixture_plus(func_name, marks, ModuleNow)
    /\ pc' = "decorated"
    /\ UNCHANGED call

Next ==
    \/ Run_get_case_getter_s
    \/ Run_extract_cases_from_module
    \/ Run_get_all_cases
    \/ Run_cases_data
    \/ Run_fixture_wrapper
    \/ Run_unfold_expected_err
    \/ Run_decorate_pytest_fixture_plus
    \/ Run_wrapped_fixture

Spec == Init /\ [][Next]_vars

\* ------------------------------------------------------------------ claims

Done(op) == pc = "done" /\ call.op = op

Range(seq) == {seq[i] : i \in 1..Len(seq)}

\* The first line of the code of the function behind a case.
FirstLine(c) == _get_code(c.f).code.co_firstlineno

\* The combination of its generator a generated case was made from.
ComboOf(c) ==
    CHOOSE k \in 1..Len(c.f.gen[1][3]) :
        DictZip(c.f.gen[1][2], c.f.gen[1][3][k]) = c.function_kwargs

\* C1: extract_cases_from_module returns the cases in order of appearance in
\* the source: a case of a function that starts on an earlier line comes
\* before every case of a function that starts on a later line, and the cases
\* of one generator come in the order of its parameter combinations.
C1_SourceOrder ==
    (Done("extract_cases_from_module") /\ ret.kind = "ok") =>
        \A i, j \in 1..Len(ret.value) :
            /\ FirstLine(ret.value[i]) < FirstLine(ret.value[j]) => i < j
            /\ ( /\ i < j
                 /\ ret.value[i].f = ret.value[j].f
                 /\ ret.value[i].f.gen # None )
               => ComboOf(ret.value[i]) < ComboOf(ret.value[j])

\* Member case_a starts on a later line than the generator case_b, and is
\* returned after the cases of case_b.
C1_Witness ==
    /\ Done("extract_cases_from_module")
    /\ ret.kind = "ok"
    /\ Len(ret.value) >= 3
    /\ DOMAIN call.module.members = {case_a, case_b}
    /\ ret.value[1].f = call.module.members[case_b]
    /\ ret.value[2].f = call.module.members[case_b]
    /\ ComboOf(ret.value[1]) < ComboOf(ret.value[2])
    /\ ret.value[Len(ret.value)].f = call.module.members[case_a]
    /\ FirstLine(ret.value[1]) < FirstLine(ret.value[Len(ret.value)])

\* Member n of the module of the call is a case function of that module: a
\* callable with the prefix whose code is in the file of the module.
IsCaseFunction(n) ==
    /\ call.module.members[n].callable
    /\ HasCasePrefix(n)
    /\ _get_code(call.module.members[n]).kind = "ok"
    /\ _get_code(call.module.members[n]).code.co_filename = call.module.file

\* Member n was handed to _get_case_getter_s and a case of it is returned.
YieldsCase(n) ==
    /\ n \in Range(ret.selected)
    /\ \E i \in 1..Len(ret.value) : ret.value[i].f = call.module.members[n]

\* C2: without has_tag and filter, extract_cases_from_module yields a case for
\* a callable member if and only if its name starts with 'case_' and its code
\* is in the file of the module.
C2_PrefixAndFile ==
    ( /\ Done("extract_cases_from_module")
      /\ call.has_tag = None
      /\ call.filter = None
      /\ ret.kind = "ok" ) =>
        \A n \in DOMAIN call.module.members :
            call.module.members[n].callable => (YieldsCase(n) <=> IsCaseFunction(n))

\* The tags of a function, () when it has no tags field.
TagsOrEmpty(f) == IF f.tags = None THEN {} ELSE Range(f.tags[1])

\* What has_tag and filter ask of a function with tags T.
Wanted(has_tag, filter, f) ==
    /\ has_tag # None => has_tag[1] \in TagsOrEmpty(f)
    /\ filter # None =>
         ( \/ filter[1].fn = "has_t2" /\ "t2" \in TagsOrEmpty(f)
           \/ filter[1].fn = "untagged" /\ TagsOrEmpty(f) = {} )

\* C3: a case function of the module is selected if and only if has_tag, when
\* set, is among its tags and filter, when set, is true of its tags; a
\* function without tags field has no tags.
C3_TagSelection ==
    (Done("extract_cases_from_module") /\ ret.kind = "ok") =>
        \A n \in DOMAIN call.module.members :
            IsCaseFunction(n) =>
                ( n \in Range(ret.selected)
                  <=> Wanted(call.has_tag, call.filter, call.module.members[n]) )

\* has_tag and filter are both set; case_a passes both and is selected,
\* case_b has no tags field and is not.
C3_Witness ==
    /\ Done("extract_cases_from_module")
    /\ ret.kind = "ok"
    /\ call.has_tag = Some("t1")
    /\ call.filter # None
    /\ DOMAIN call.module.members = {case_a, case_b}
    /\ IsCaseFunction(case_a)
    /\ IsCaseFunction(case_b)
    /\ call.module.members[case_b].tags = None
    /\ ret.selected = <<case_a>>
    /\ Len(ret.value) = 1

\* C4: with has_tag set, every case get_all_cases returns comes from a
\* function whose tags contain has_tag, for explicit cases and for modules.
C4_OnlyTaggedCases ==
    ( /\ Done("get_all_cases")
      /\ ret.kind = "ok"
      /\ call.args.has_tag # None ) =>
        \A i \in 1..Len(ret.value) :
            call.args.has_tag[1] \in TagsOrEmpty(ret.value[i].c.f)

\* C5: the wrapper calls the fixture function with every parametrized
\* argument name bound to the value its param fixture supplied, whatever the
\* marks.
C5_ArgumentsBound ==
    Done("fixture_wrapper") =>
        /\ ret.kind = "ok"
        /\ DictKeys(ret.kwargs) = NamesOf(call.marks)
        /\ \A n \in NamesOf(call.marks) :
              DictGet(ret.kwargs, n) = [tuple |-> FALSE, items |-> <<call.val[n]>>]

\* The name of a case: the generated name, or the name of the function.
CaseName(c) == IF c.case_name = None THEN c.f.name ELSE c.case_name[1]

\* C6: cases_data gives parametrize the list of get_all_cases and one id per
\* case, the name of the case, also for the cases that carry marks.
C6_IdsAreCaseNames ==
    (Done("cases_data") /\ ret.kind = "ok") =>
        /\ ret.argvalues =
              get_all_cases(call.args.cases, call.args.module, ThisModule,
                            call.args.has_tag, call.args.filter).value
        /\ Len(ret.ids) = Len(ret.argvalues)
        /\ \A i \in 1..Len(ret.ids) : ret.ids[i] = CaseName(ret.argvalues[i].c)

\* C7: get_all_cases raises ValueError when module and cases are both given,
\* and has then inspected no member and created no case getter.
C7_BothIsAnError ==
    ( /\ Done("get_all_cases")
      /\ call.args.cases # None
      /\ call.args.module # None ) =>
        /\ ret.kind = "ValueError"
        /\ ret.value = <<>>
        /\ ret.created = <<>>
        /\ ret.inspected = <<>>

\* Both are given, and each alone would have listed cases.
C7_Witness ==
    /\ Done("get_all_cases")
    /\ call.args.cases # None
    /\ call.args.module # None
    /\ Len(call.args.cases[1].items) = 2
    /\ call.args.has_tag = None
    /\ call.args.filter = None
    /\ ret.kind = "ValueError"

\* C8: extract_cases_from_module raises ValueError when filter is given and
\* is not callable, whatever the module holds, and returns no case.
C8_FilterMustBeCallable ==
    ( /\ Done("extract_cases_from_module")
      /\ call.filter # None
      /\ ~call.filter[1].callable ) =>
        /\ ret.kind = "ValueError"
        /\ ret.value = <<>>
        /\ ret.created = <<>>

\* The filter is a tag and the module holds no member at all.
C8_Witness ==
    /\ Done("extract_cases_from_module")
    /\ call.filter # None
    /\ ~call.filter[1].callable
    /\ DOMAIN call.module.members = {}
    /\ ret.kind = "ValueError"

\* The parameters of combination k of the generator of the call: the
\* parameter ids mapped onto the values of the combination.
ParamsOf(k) ==
    LET ids    == call.f.gen[1][2]
        values == call.f.gen[1][3][k]
        n      == IF Len(ids) < Len(values) THEN Len(ids) ELSE Len(values)
    IN  [j \in 1..n |-> <<ids[j], values[j]>>]

\* The name template of the generator of the call formatted with the
\* parameters of combination k.
NameOf(k) == Format(call.f.gen[1][1], ParamsOf(k))

\* Combination k is the first whose name an earlier combination produced.
FirstRepeat(k) ==
    /\ \A j \in 1..k : NameOf(j).kind = "ok"
    /\ \E j \in 1..(k - 1) : NameOf(j).s = NameOf(k).s
    /\ \A i, j \in 1..(k - 1) : i # j => NameOf(i).s # NameOf(j).s

\* C9: for a case generator, _get_case_getter_s raises ValueError as soon as
\* a combination yields a name an earlier combination produced, the getters
\* of the combinations before it being the only ones created; when it
\* returns, the generated names are pairwise distinct.
C9_NamesAreUnique ==
    (Done("_get_case_getter_s") /\ call.f.gen # None) =>
        /\ \A k \in 1..Len(call.f.gen[1][3]) :
              FirstRepeat(k) =>
                  ret.kind = "ValueError" /\ Len(ret.created) = k - 1
        /\ ret.kind = "ValueError" =>
              \E k \in 1..Len(call.f.gen[1][3]) : FirstRepeat(k)
        /\ ret.kind = "ok" =>
              \A i, j \in 1..Len(ret.cases_list) :
                  i # j => ret.cases_list[i].case_name # ret.cases_list[j].case_name

\* The third combination repeats the name of the first, "11" made of 1 and
\* "1" and then of "11" and nothing else, and the second has another name.
C9_Witness ==
    /\ Done("_get_case_getter_s")
    /\ call.f.gen # None
    /\ Len(call.f.gen[1][3]) = 3
    /\ FirstRepeat(3)
    /\ NameOf(1).s = NameOf(3).s
    /\ NameOf(1).s # NameOf(2).s
    /\ call.f.gen[1][3][1] # call.f.gen[1][3][3]
    /\ ret.kind = "ValueError"
    /\ Len(ret.created) = 2

IsExceptionType(v) == v.is_class /\ issubclass(v.cls, "Exception")

\* An exception instance: an instance of a class that derives from Exception.
IsExceptionInstance(v) == ~v.is_class /\ issubclass(v.cls, "Exception")

\* C11: unfold_expected_err returns (expected_e, None, None) for an exception
\* type, (type(expected_e), expected_e, None) for an exception instance,
\* (Exception, None, expected_e) for any other callable, and raises
\* ValueError for every other input.
C11_UnfoldsByKind ==
    Done("unfold_expected_err") =>
        LET e == call.expected_e
        IN CASE IsExceptionType(e) ->
                    ret = [kind |-> "ok", value |-> <<Some(e), None, None>>]
             [] IsExceptionInstance(e) ->
                    ret = [kind |-> "ok",
                           value |-> <<Some(ClassValue(e.cls)), Some(e), None>>]
             [] ~IsExceptionType(e) /\ ~IsExceptionInstance(e) /\ IsCallable(e) ->
                    ret = [kind |-> "ok",
                           value |-> <<Some(ClassValue("Exception")), None, Some(e)>>]
             [] OTHER -> ret.kind = "ValueError"

\* The names of dir(module) before the k-th param fixture was set on it.
AttrsBefore(k) ==
    call.attrs \cup {ret.injected[n].name : n \in 1..(k - 1)}

\* The turn of the while loop that produced the k-th name.
TurnOf(k) ==
    CHOOSE i \in 0..Cardinality(AttrsBefore(k)) :
        Candidate(ret.injected[k].gen_name, i) \notin AttrsBefore(k)
        /\ \A h \in 0..(i - 1) :
              Candidate(ret.injected[k].gen_name, h) \in AttrsBefore(k)

\* C12: after any sequence of decorations in one module, every param fixture
\* was set under the first name among gen_name, gen_name_1, gen_name_2, ...
\* that the module did not hold, so no attribute the module held was
\* overwritten, the generated names are pairwise distinct, and the 'already
\* exists' ValueError was not raised.
C12_FreshFixtureNames ==
    (pc = "decorated" /\ call.op = "decorate_pytest_fixture_plus") =>
        /\ ret.msg # "already exists"
        /\ \A k \in 1..Len(ret.injected) :
              /\ ret.injected[k].name \notin AttrsBefore(k)
              /\ ret.injected[k].name =
                     Candidate(ret.injected[k].gen_name, TurnOf(k))
        /\ \A k, n \in 1..Len(ret.injected) :
              ret.injected[k].name = ret.injected[n].name => k = n
        /\ ret.attrs = call.attrs \cup {ret.injected[k].name :
                                           k \in 1..Len(ret.injected)}

\* Two decorations done, the second one finding its gen_name taken by the
\* name the first one had to number: f__a_1 is held, and f__a_1_1 is set.
C12_Witness ==
    /\ pc = "decorated"
    /\ call.op = "decorate_pytest_fixture_plus"
    /\ ret.kind = "ok"
    /\ ret.decorated = 2
    /\ \E k, n \in 1..Len(ret.injected) :
          /\ k < n
          /\ ret.injected[k].name # ret.injected[k].gen_name
          /\ ret.injected[n].gen_name = ret.injected[k].name
          /\ ret.injected[n].name = Candidate(ret.injected[n].gen_name, 1)

\* The argument names of the fixture function, in the order of its marks.
RECURSIVE Flatten(_)
Flatten(marks) ==
    IF marks = <<>> THEN <<>> ELSE Head(marks) \o Flatten(Tail(marks))

\* What the original function yields or returns when each argument holds the
\* value its param fixture supplied.
OriginalValues ==
    [k \in 1..Len(Flatten(call.marks)) |->
        [tuple |-> FALSE, items |-> <<call.val[Flatten(call.marks)[k]]>>]]

\* C13: the wrapped fixture of a generator function is a generator that
\* yields the values of the original in the same order and is registered as
\* a yield fixture; the wrapped fixture of a normal function returns the
\* value of the original and is registered as a plain fixture.
C13_GeneratorPreserved ==
    Done("wrapped_fixture") =>
        /\ ret.kind = "ok"
        /\ ret.is_generator = call.is_generator
        /\ call.is_generator =>
              /\ ret.registered = "yield_fixture"
              /\ ret.yielded = OriginalValues
        /\ ~call.is_generator =>
              /\ ret.registered = "pytest.fixture"
              /\ ret.returned = Some(OriginalValues)

====
